---- MODULE Spec2Model ----
(***************************************************************************)
(* Order lifecycle of the e-commerce backend (src/index.js): the order     *)
(* store, POST /create-checkout-session, POST /create-order,               *)
(* GET /order-details/:paymentId and POST /webhook.                        *)
(*                                                                         *)
(* Every handler is an async function: it runs to its next await, and      *)
(* other handlers run while it waits.  Each await on a network call or a   *)
(* store operation is therefore a separate step of the handler.  The       *)
(* document store is taken to be available (no operation on it fails for   *)
(* reasons of its own); the payment gateway and the self-call to           *)
(* /create-order may fail.                                                 *)
(***************************************************************************)
EXTENDS Integers, Sequences, FiniteSets, TLC

VARIABLES
    orders,    \* the Order collection, in insertion order
    webhook,   \* the /webhook handlers that wait on an await
    checkout,  \* the /create-checkout-session handler that waits on an await
    lastResp   \* the response the server sent last, with what its handler did

vars == <<orders, webhook, checkout, lastResp>>

(***************************************************************************)
(* Bounds of the model.                                                    *)
(***************************************************************************)
\* The store holds at most MaxOrders orders (inserts are disabled beyond).
MaxOrders == 2

\* Webhook requests in flight at the same time.
Handlers == {"w1", "w2"}

\* Identifiers the gateway hands out (preference ids, payment ids).
PaymentIds == {"pay_1", "pay_2"}

(***************************************************************************)
(* JavaScript values.                                                      *)
(***************************************************************************)
\* A missing field (undefined); a required String path also rejects "".
Undefined == ""

\* A JS number: an integer or NaN.
Num(n) == [nan |-> FALSE, n |-> n]
NaN == [nan |-> TRUE, n |-> 0]

\* A JSON value in a numeric position: a number or a non-numeric string.
JsNumber(n) == [t |-> "number", n |-> n]
JsString == [t |-> "string", n |-> 0]

\* ToNumber, as applied by the * operator.
ToNumber(v) == IF v.t = "number" THEN Num(v.n) ELSE NaN

Mul(a, b) == IF a.nan \/ b.nan THEN NaN ELSE Num(a.n * b.n)
Add(a, b) == IF a.nan \/ b.nan THEN NaN ELSE Num(a.n + b.n)

\* a <= b on JS numbers: false whenever an operand is NaN.
LessEq(a, b) == ~a.nan /\ ~b.nan /\ a.n <= b.n

(***************************************************************************)
(* The order store.                                                        *)
(***************************************************************************)
Statuses == {"pending", "paid"}

\* Faulty variant of DefaultStatus: the schema default set to 'paid'.
DefaultStatusPaid == "paid"

\* Schema default of Order.status.
DefaultStatus == "pending"

\* Mongoose casts items[].unit_price to Number; a non-numeric string fails.
ItemsCastable(items) == \A i \in 1..Len(items) : items[i].unit_price.t = "number"

\* Validation run by newOrder.save(): the three required paths and the casts.
ValidateOrder(req) ==
    /\ req.paymentId # Undefined
    /\ req.shippingAddress # Undefined
    /\ req.payerEmail # Undefined
    /\ ItemsCastable(req.items)

\* new Order({paymentId, shippingAddress, payerEmail, items}): only these four
\* fields of the request body are copied; status takes the schema default.
NewOrder(store, req) ==
    [id |-> Len(store) + 1,
     paymentId |-> req.paymentId,
     shippingAddress |-> req.shippingAddress,
     payerEmail |-> req.payerEmail,
     items |-> req.items,
     status |-> DefaultStatus]

\* newOrder.save()
Save(store, req) == Append(store, NewOrder(store, req))

\* Positions of the orders with the given paymentId, in insertion order.
Matching(store, paymentId) == {i \in 1..Len(store) : store[i].paymentId = paymentId}

Min(S) == CHOOSE m \in S : \A x \in S : m <= x

\* Order.findOne({paymentId}): the first matching document, or none (0).  No
\* sort is given, so the store answers in its natural order, which for a
\* collection without deletions is the order of insertion, the same at each
\* call.
FindOne(store, paymentId) ==
    IF Matching(store, paymentId) = {} THEN 0 ELSE Min(Matching(store, paymentId))

\* Faulty variant of FindOneAndUpdate: the filter names a path no document
\* has, so nothing matches and nothing is updated.
FindOneAndUpdateNoMatch(store, paymentId) == store

\* Faulty variant of FindOneAndUpdate: updateMany, every match is set to paid.
FindOneAndUpdateMany(store, paymentId) ==
    [i \in 1..Len(store) |->
        IF store[i].paymentId = paymentId
        THEN [store[i] EXCEPT !.status = "paid"] ELSE store[i]]

\* Faulty variant of FindOneAndUpdate: the filter also asks for status
\* 'pending', so the first pending match is the one set to paid.
FindOneAndUpdatePending(store, paymentId) ==
    IF {i \in Matching(store, paymentId) : store[i].status = "pending"} = {}
    THEN store
    ELSE [store EXCEPT
            ![Min({i \in Matching(store, paymentId) : store[i].status = "pending"})].status
                = "paid"]

\* Order.findOneAndUpdate({paymentId}, {status: 'paid'}): sets the status of the
\* first matching document, whatever its status; without a match, nothing.
FindOneAndUpdate(store, paymentId) ==
    IF FindOne(store, paymentId) = 0 THEN store
    ELSE [store EXCEPT ![FindOne(store, paymentId)].status = "paid"]

(***************************************************************************)
(* Responses.  A handler that answers is gone; lastResp keeps the response *)
(* sent last: its route and status, the fields of its body, and what the   *)
(* handler that sent it had received and called.                           *)
(***************************************************************************)
NoResp ==
    [route |-> "", status |-> 0,
     id |-> "", orderId |-> 0, shippingAddress |-> "",
     authentic |-> FALSE, type |-> "", lookup |-> "", found |-> "",
     follow |-> 0, calls |-> <<>>]

(***************************************************************************)
(* POST /create-order and GET /order-details/:paymentId.  Each awaits one  *)
(* store operation and answers.                                            *)
(***************************************************************************)
Addresses == {"123 Main St"}
Emails == {"a@b.com"}

Item(price, quantity) == [title |-> "Shirt", quantity |-> quantity, unit_price |-> price]

\* Bodies sent to /create-order: each required field there or not, items that
\* cast or not, and possibly a status field of the sender's own.
CreateOrderRequests ==
    [paymentId : PaymentIds \cup {Undefined},
     shippingAddress : Addresses \cup {Undefined},
     payerEmail : Emails \cup {Undefined},
     items : {<<Item(JsNumber(10), 2)>>, <<Item(JsString, 1)>>},
     status : {Undefined, "paid"}]

\* Status answered by /create-order: 201 after save(), 500 from the catch.
CreateOrderStatus(req) == IF ValidateOrder(req) THEN 201 ELSE 500

\* The store after /create-order has handled req.
CreateOrderStore(store, req) == IF ValidateOrder(req) THEN Save(store, req) ELSE store

CreateOrder(req) ==
    /\ ValidateOrder(req) => Len(orders) < MaxOrders
    /\ orders' = CreateOrderStore(orders, req)
    /\ lastResp' = [NoResp EXCEPT !.route = "create-order",
                                  !.status = CreateOrderStatus(req)]
    /\ UNCHANGED <<webhook, checkout>>

\* The answer of /order-details: 404, or the id and shippingAddress of the
\* order found (no other field of the order is sent).
OrderDetailsResponse(store, paymentId) ==
    IF FindOne(store, paymentId) = 0
    THEN [NoResp EXCEPT !.route = "order-details", !.status = 404]
    ELSE [NoResp EXCEPT
            !.route = "order-details",
            !.status = 200,
            !.orderId = store[FindOne(store, paymentId)].id,
            !.shippingAddress = store[FindOne(store, paymentId)].shippingAddress]

OrderDetails(paymentId) ==
    /\ lastResp' = OrderDetailsResponse(orders, paymentId)
    /\ UNCHANGED <<orders, webhook, checkout>>

(***************************************************************************)
(* POST /webhook.                                                          *)
(***************************************************************************)
\* MERCADO_PAGO_SECRET
Secret == "secret"

\* data.id of a notification without a data object.
NoData == "no-data"

\* The parsed notifications: payments with or without data, and another type.
Notifications ==
    [type : {"payment"}, id : PaymentIds \cup {NoData}]
        \cup [type : {"merchant_order"}, id : {NoData}]

\* The bytes of a request body: a JSON text in some formatting.
Bodies == {[fmt |-> f, type |-> n.type, id |-> n.id] :
              f \in {"compact", "spaced"}, n \in Notifications}

\* express.json(): the parsed object does not keep the formatting.
JsonParse(bytes) == [type |-> bytes.type, id |-> bytes.id]

\* JSON.stringify: always the compact formatting.
JsonStringify(obj) == [fmt |-> "compact", type |-> obj.type, id |-> obj.id]

\* crypto.createHmac('sha256', key).update(msg).digest('hex'), taken to be
\* collision free: equal digests come from equal keys and messages.
HmacSha256Hex(key, msg) == [key |-> key, msg |-> msg]

\* No x-mercadopago-signature header.
NoSignature == [key |-> Undefined, msg |-> [fmt |-> "", type |-> "", id |-> ""]]

\* Headers a sender may put on the bytes: signed with the secret, signed with
\* another key, signed with the secret over the compact form, or none.
SignaturesFor(bytes) ==
    { HmacSha256Hex(Secret, bytes),
      HmacSha256Hex("other", bytes),
      HmacSha256Hex(Secret, JsonStringify(JsonParse(bytes))),
      NoSignature }

WebhookRequests ==
    UNION {{[bytes |-> b, signature |-> sig] : sig \in SignaturesFor(b)} : b \in Bodies}

\* digest: the HMAC of the re-serialised parsed body.
Digest(req) == HmacSha256Hex(Secret, JsonStringify(JsonParse(req.bytes)))

\* Faulty variant of SignatureMatches: the comparison is skipped.
SignatureNotChecked(signature, digest) == TRUE

\* signature !== digest is false
SignatureMatches(signature, digest) == signature = digest

\* Faulty variant of IsPaymentType: every notification is taken for a payment.
IsPaymentTypeAny(type) == TRUE

\* payment.type === 'payment'
IsPaymentType(type) == type = "payment"

\* Faulty variant of IsApproved: every status the gateway reports counts.
IsApprovedAny(status) == TRUE

\* paymentData.status === 'approved'
IsApproved(status) == status = "approved"

\* What GET /v1/payments/{id} may produce: a status, or no usable answer
\* (the fetch rejects or the body is not JSON).
LookupOutcomes == {"approved", "pending", "rejected", "error"}

StatusQuery(id) == [api |-> "GET /v1/payments", arg |-> id]

IdleWebhook ==
    [pc |-> "idle", authentic |-> FALSE, type |-> "", id |-> "",
     status |-> "", calls |-> <<>>]

\* The response of a webhook handler w with the given status code.
WebhookResponse(w, code) ==
    [NoResp EXCEPT
       !.route = "webhook", !.status = code, !.authentic = w.authentic,
       !.type = w.type, !.id = w.id, !.lookup = w.status, !.calls = w.calls]

\* The status of the document findOneAndUpdate matches, before the update.
Found(store, paymentId) ==
    IF FindOne(store, paymentId) = 0 THEN "none"
    ELSE store[FindOne(store, paymentId)].status

\* The request arrives: signature check, type check, and the status query is
\* sent.  authentic records whether the header equalled the digest.
WebhookReceive(h, req) ==
    /\ webhook[h].pc = "idle"
    /\ LET payment == JsonParse(req.bytes)
           w == [IdleWebhook EXCEPT !.authentic = (req.signature = Digest(req))]
           p == [w EXCEPT !.type = payment.type]
       IN IF ~SignatureMatches(req.signature, Digest(req))
          THEN /\ lastResp' = WebhookResponse(w, 400)
               /\ webhook' = webhook
          ELSE IF IsPaymentType(payment.type)
          THEN IF payment.id = NoData
               THEN /\ lastResp' = WebhookResponse(p, 500)
                    /\ webhook' = webhook
               ELSE /\ webhook' = [webhook EXCEPT ![h] =
                          [p EXCEPT !.pc = "lookup", !.id = payment.id,
                                    !.calls = <<StatusQuery(payment.id)>>]]
                    /\ lastResp' = lastResp
          ELSE /\ lastResp' = WebhookResponse(p, 200)
               /\ webhook' = webhook
    /\ UNCHANGED <<orders, checkout>>

\* The status query returns; an approved payment sends the store update.
WebhookLookupReturn(h, outcome) ==
    /\ webhook[h].pc = "lookup"
    /\ LET w == [webhook[h] EXCEPT !.status = outcome]
       IN IF outcome = "error"
          THEN /\ lastResp' = WebhookResponse(w, 500)
               /\ webhook' = [webhook EXCEPT ![h] = IdleWebhook]
          ELSE IF IsApproved(outcome)
          THEN /\ webhook' = [webhook EXCEPT ![h] = [w EXCEPT !.pc = "update"]]
               /\ lastResp' = lastResp
          ELSE /\ lastResp' = WebhookResponse(w, 200)
               /\ webhook' = [webhook EXCEPT ![h] = IdleWebhook]
    /\ UNCHANGED <<orders, checkout>>

\* The store executes findOneAndUpdate and the handler answers 200.
WebhookUpdate(h) ==
    /\ webhook[h].pc = "update"
    /\ orders' = FindOneAndUpdate(orders, webhook[h].id)
    /\ lastResp' = [WebhookResponse(webhook[h], 200) EXCEPT
                      !.found = Found(orders, webhook[h].id)]
    /\ webhook' = [webhook EXCEPT ![h] = IdleWebhook]
    /\ UNCHANGED checkout

(***************************************************************************)
(* POST /create-checkout-session.                                          *)
(***************************************************************************)
\* Item lists a request may carry: empty, positive total, zero total through
\* a negative line, negative total, a non-numeric price.
ItemLists ==
    { <<>>,
      <<Item(JsNumber(10), 2)>>,
      <<Item(JsNumber(10), 1), Item(JsNumber(-5), 2)>>,
      <<Item(JsNumber(-5), 1)>>,
      <<Item(JsString, 1)>> }

CheckoutRequests ==
    [items : ItemLists, payerEmail : Emails, shippingAddress : Addresses]

\* items.reduce((total, item) => total + (item.unit_price * item.quantity), 0)
RECURSIVE Reduce(_, _, _)
Reduce(items, i, total) ==
    IF i > Len(items) THEN total
    ELSE Reduce(items, i + 1,
                Add(total, Mul(ToNumber(items[i].unit_price), Num(items[i].quantity))))

TotalAmount(items) == Reduce(items, 1, Num(0))

\* Faulty variant of InvalidAmount: totalAmount < 0, a zero total passes.
InvalidAmountStrict(total) == ~total.nan /\ total.n < 0

\* totalAmount <= 0
InvalidAmount(total) == LessEq(total, Num(0))

\* Identifiers the gateway gives to preferences.
PreferenceIds == {"pay_1"}

\* What POST /checkout/preferences may produce: a success with an id, a
\* success without one, an error status, or no answer (the fetch rejects).
PreferenceOutcomes ==
    [result : {"ok"}, id : PreferenceIds \cup {Undefined}]
        \cup [result : {"not-ok", "rejected"}, id : {Undefined}]

PreferenceCall == [api |-> "POST /checkout/preferences", arg |-> ""]
CreateOrderCall(id) == [api |-> "POST /create-order", arg |-> id]

\* Body of the follow-up call to /create-order.
FollowUpBody(c) ==
    [paymentId |-> c.id,
     shippingAddress |-> c.shippingAddress,
     payerEmail |-> c.payerEmail,
     items |-> c.items]

IdleCheckout ==
    [pc |-> "idle", items |-> <<>>, payerEmail |-> "", shippingAddress |-> "",
     id |-> "", follow |-> 0, calls |-> <<>>]

\* The response of the checkout handler c: {id} with 200, or 500.
CheckoutResponse(c, code) ==
    [NoResp EXCEPT
       !.route = "create-checkout-session", !.status = code,
       !.id = IF code = 200 THEN c.id ELSE "",
       !.follow = c.follow, !.calls = c.calls]

\* The request arrives: the total is checked and the preference is requested.
CheckoutReceive(req) ==
    /\ checkout.pc = "idle"
    /\ LET c == [IdleCheckout EXCEPT
                   !.items = req.items,
                   !.payerEmail = req.payerEmail,
                   !.shippingAddress = req.shippingAddress]
       IN IF InvalidAmount(TotalAmount(req.items))
          THEN /\ lastResp' = CheckoutResponse(c, 500)
               /\ checkout' = checkout
          ELSE /\ checkout' = [c EXCEPT !.pc = "preference",
                                        !.calls = <<PreferenceCall>>]
               /\ lastResp' = lastResp
    /\ UNCHANGED <<orders, webhook>>

\* The gateway answers: without an id the handler throws; with one it sends
\* the follow-up call to /create-order.
CheckoutPreferenceReturn(outcome) ==
    /\ checkout.pc = "preference"
    /\ IF outcome.result # "ok" \/ outcome.id = Undefined
       THEN /\ lastResp' = CheckoutResponse(checkout, 500)
            /\ checkout' = IdleCheckout
       ELSE /\ checkout' = [checkout EXCEPT
                              !.pc = "order", !.id = outcome.id,
                              !.calls = Append(@, CreateOrderCall(outcome.id))]
            /\ lastResp' = lastResp
    /\ UNCHANGED <<orders, webhook>>

\* /create-order handles the follow-up call and answers the waiting handler.
CheckoutFollowUpHandled ==
    /\ checkout.pc = "order"
    /\ ValidateOrder(FollowUpBody(checkout)) => Len(orders) < MaxOrders
    /\ orders' = CreateOrderStore(orders, FollowUpBody(checkout))
    /\ checkout' = [checkout EXCEPT
                      !.pc = "respond",
                      !.follow = CreateOrderStatus(FollowUpBody(checkout))]
    /\ UNCHANGED <<webhook, lastResp>>

\* The follow-up call does not complete: the fetch rejects inside the try,
\* and the catch answers 500.
CheckoutFollowUpRejected ==
    /\ checkout.pc = "order"
    /\ lastResp' = CheckoutResponse(checkout, 500)
    /\ checkout' = IdleCheckout
    /\ UNCHANGED <<orders, webhook>>

\* The fetch resolved (its status is not looked at): res.json({ id }).
CheckoutRespond ==
    /\ checkout.pc = "respond"
    /\ lastResp' = CheckoutResponse(checkout, 200)
    /\ checkout' = IdleCheckout
    /\ UNCHANGED <<orders, webhook>>

(***************************************************************************)
(* The system.                                                             *)
(***************************************************************************)
Init ==
    /\ orders = <<>>
    /\ webhook = [h \in Handlers |-> IdleWebhook]
    /\ checkout = IdleCheckout
    /\ lastResp = NoResp

Next ==
    \/ \E req \in CreateOrderRequests : CreateOrder(req)
    \/ \E paymentId \in PaymentIds : OrderDetails(paymentId)
    \/ \E h \in Handlers, req \in WebhookRequests : WebhookReceive(h, req)
    \/ \E h \in Handlers, outcome \in LookupOutcomes : WebhookLookupReturn(h, outcome)
    \/ \E h \in Handlers : WebhookUpdate(h)
    \/ \E req \in CheckoutRequests : CheckoutReceive(req)
    \/ \E outcome \in PreferenceOutcomes : CheckoutPreferenceReturn(outcome)
    \/ CheckoutFollowUpHandled
    \/ CheckoutFollowUpRejected
    \/ CheckoutRespond

Spec == Init /\ [][Next]_vars

(***************************************************************************)
(* Properties.                                                             *)
(***************************************************************************)
\* The orders with the given paymentId.
OrdersOf(store, paymentId) == {store[i] : i \in Matching(store, paymentId)}

\* A webhook response is sent in this step.
WebhookAnswers == lastResp' # lastResp /\ lastResp'.route = "webhook"

\* C1: every order is pending or paid, a paid order stays paid, and an order
\* goes from pending to paid only in the store update of a webhook handler
\* whose signature matched, whose notification type is "payment", whose status
\* lookup returned "approved" and whose payment id is the order's paymentId.
C1_StatusTransitions ==
    /\ \A i \in 1..Len(orders) : orders[i].status \in Statuses
    /\ [][ /\ Len(orders') >= Len(orders)
           /\ \A i \in 1..Len(orders') : orders'[i].status \in Statuses
           /\ \A i \in 1..Len(orders) :
                /\ orders[i].status = "paid" => orders'[i].status = "paid"
                /\ (orders[i].status = "pending" /\ orders'[i].status = "paid") =>
                     \E h \in Handlers :
                        /\ WebhookUpdate(h)
                        /\ webhook[h].authentic
                        /\ webhook[h].type = "payment"
                        /\ webhook[h].status = "approved"
                        /\ webhook[h].id = orders[i].paymentId ]_vars

\* C1 witness: an approved notification has just paid the order of its payment
\* id, while an order with another paymentId is still pending.
C1_Witness ==
    /\ lastResp.route = "webhook" /\ lastResp.lookup = "approved"
    /\ lastResp.found = "pending"
    /\ \E i, j \in 1..Len(orders) :
          /\ orders[i].paymentId = lastResp.id /\ orders[i].status = "paid"
          /\ orders[j].paymentId # lastResp.id /\ orders[j].status = "pending"

C3_ApprovedMarksPaid ==
    [][ /\ \A h \in Handlers : WebhookUpdate(h) =>
              /\ webhook[h].authentic /\ webhook[h].status = "approved"
              /\ lastResp'.route = "webhook" /\ lastResp'.status = 200
              /\ IF OrdersOf(orders, webhook[h].id) # {}
                 THEN LET d == OrderDetailsResponse(orders', webhook[h].id)
                      IN /\ d.status = 200
                         /\ orders'[d.orderId].paymentId = webhook[h].id
                         /\ orders'[d.orderId].status = "paid"
                         /\ d.shippingAddress = orders'[d.orderId].shippingAddress
                 ELSE orders' = orders
        /\ (WebhookAnswers /\ lastResp'.authentic /\ lastResp'.lookup = "approved") =>
              lastResp'.found \in {"none", "pending", "paid"} ]_vars

\* C3 witness: an approved notification found no order with its payment id and
\* was answered 200, after another one had paid the order of its own id.
C3_Witness ==
    /\ lastResp.route = "webhook" /\ lastResp.lookup = "approved"
    /\ lastResp.status = 200 /\ lastResp.found = "none"
    /\ OrdersOf(orders, lastResp.id) = {}
    /\ \E i \in 1..Len(orders) : orders[i].status = "paid"

\* C3 as stated: after the update has paid a pending order, a lookup by that
\* paymentId reflects it, that is, it answers something else than before.
C3_LookupReflectsPaid ==
    [][ \A h \in Handlers :
          (WebhookUpdate(h) /\ Found(orders, webhook[h].id) = "pending") =>
             OrderDetailsResponse(orders', webhook[h].id)
                # OrderDetailsResponse(orders, webhook[h].id) ]_vars

\* C4: a verified notification whose type is not "payment", or whose status
\* lookup returned a status other than "approved", is answered 200 and leaves
\* every order as it was; for a type other than "payment" no status query is
\* sent, and no handler waits on one.
C4_OtherNotificationsIgnored ==
    /\ [](\A h \in Handlers : webhook[h].pc # "idle" => webhook[h].type = "payment")
    /\ [][ (/\ WebhookAnswers
            /\ lastResp'.authentic
            /\ \/ lastResp'.type # "payment"
               \/ lastResp'.lookup \notin {"", "error", "approved"}) =>
              /\ lastResp'.status = 200
              /\ orders' = orders
              /\ lastResp'.type # "payment" => lastResp'.calls = <<>> ]_vars

\* C4 witness: a verified payment notification whose lookup returned "pending"
\* was answered 200 and the order with its payment id is still pending.
C4_Witness ==
    /\ lastResp.route = "webhook" /\ lastResp.authentic
    /\ lastResp.lookup = "pending" /\ lastResp.status = 200
    /\ OrdersOf(orders, lastResp.id) # {}
    /\ \A o \in OrdersOf(orders, lastResp.id) : o.status = "pending"

\* C5: the store update of an approved notification changes nothing but the
\* status of the order it matches, changes nothing at all when that order is
\* already paid, and leaves a store on which the same update changes nothing:
\* two handlers of the same notification, in any interleaving of their steps,
\* leave the store that one of them leaves.
C5_UpdateIdempotent ==
    [][ \A h \in Handlers : WebhookUpdate(h) =>
          /\ Len(orders') = Len(orders)
          /\ \A i \in 1..Len(orders) :
                i # FindOne(orders, webhook[h].id) => orders'[i] = orders[i]
          /\ Found(orders, webhook[h].id) = "paid" => orders' = orders
          /\ FindOneAndUpdate(orders', webhook[h].id) = orders' ]_vars

\* C5 witness: an approved notification was handled when the order with its
\* payment id had already been paid by an earlier one, while the other handler
\* is idle again.
C5_Witness ==
    /\ lastResp.route = "webhook" /\ lastResp.lookup = "approved"
    /\ lastResp.found = "paid" /\ lastResp.status = 200
    /\ \E o \in OrdersOf(orders, lastResp.id) : o.status = "paid"
    /\ \A h \in Handlers : webhook[h].pc = "idle"

\* C6: a checkout request whose total is <= 0 is answered 500, sends no call
\* to the gateway or to /create-order and leaves the store unchanged.
C6_InvalidAmountRejected ==
    [][ \A req \in CheckoutRequests :
          (CheckoutReceive(req) /\ LessEq(TotalAmount(req.items), Num(0))) =>
             /\ lastResp'.route = "create-checkout-session"
             /\ lastResp'.status = 500
             /\ lastResp'.calls = <<>>
             /\ checkout'.pc = "idle"
             /\ orders' = orders ]_vars

\* C6 witness: a checkout was answered 500 without any outbound call, with an
\* order in the store.
C6_Witness ==
    /\ lastResp.route = "create-checkout-session"
    /\ lastResp.status = 500 /\ lastResp.calls = <<>>
    /\ Len(orders) > 0

\* The required fields of a /create-order request are all there.
RequiredPresent(req) ==
    /\ req.paymentId # Undefined
    /\ req.shippingAddress # Undefined
    /\ req.payerEmail # Undefined

\* C7 as stated: /create-order with the required fields inserts one pending
\* order and answers 201; with one absent it answers a client error (4xx) and
\* the store is unchanged.
C7_CreateOrderValidation ==
    [][ \A req \in CreateOrderRequests : CreateOrder(req) =>
          IF RequiredPresent(req)
          THEN /\ Len(orders') = Len(orders) + 1
               /\ orders'[Len(orders')].status = "pending"
               /\ lastResp'.status = 201
          ELSE /\ lastResp'.status \in 400..499
               /\ orders' = orders ]_vars

\* C8 as stated: once the gateway has returned a preference id, the follow-up
\* call carries it as paymentId and the caller is answered 200 with {id},
\* whatever becomes of the follow-up call.
C8_FollowUpNotSurfaced ==
    /\ checkout.pc \in {"order", "respond"} =>
          checkout.calls = <<PreferenceCall, CreateOrderCall(checkout.id)>>
    /\ (lastResp.route = "create-checkout-session" /\ Len(lastResp.calls) = 2) =>
          /\ lastResp.status = 200
          /\ lastResp.id = lastResp.calls[2].arg

\* C9: every inserted order is pending, whatever notifications were handled
\* before, and a pending order stays pending in every step that is not the
\* store update of an approved notification for its paymentId.
C9_InsertIgnoresEarlierNotifications ==
    [][ /\ \A i \in (Len(orders) + 1)..Len(orders') : orders'[i].status = "pending"
        /\ \A i \in 1..Len(orders) :
              (/\ orders[i].status = "pending"
               /\ ~\E h \in Handlers :
                      WebhookUpdate(h) /\ webhook[h].id = orders[i].paymentId) =>
                 orders'[i].status = "pending" ]_vars

\* C9 witness: the last response answered an approved notification that found
\* no order with its payment id; an order with that paymentId has been
\* inserted since and every such order is pending.
C9_Witness ==
    /\ lastResp.route = "webhook" /\ lastResp.lookup = "approved"
    /\ lastResp.found = "none" /\ lastResp.status = 200
    /\ OrdersOf(orders, lastResp.id) # {}
    /\ \A o \in OrdersOf(orders, lastResp.id) : o.status = "pending"

\* C10: the store update of a notification changes the status of at most one
\* order; of two pending orders with its payment id, one becomes paid and the
\* other stays pending.
C10_AtMostOneOrderPaid ==
    [][ \A h \in Handlers : WebhookUpdate(h) =>
          /\ Cardinality({i \in 1..Len(orders) :
                            orders'[i].status # orders[i].status}) <= 1
          /\ \A i, j \in Matching(orders, webhook[h].id) :
                (/\ i # j
                 /\ Matching(orders, webhook[h].id) = {i, j}
                 /\ orders[i].status = "pending"
                 /\ orders[j].status = "pending") =>
                   \/ orders'[i].status = "paid" /\ orders'[j].status = "pending"
                   \/ orders'[i].status = "pending" /\ orders'[j].status = "paid" ]_vars

\* C10 witness: two orders with the same paymentId, pending until an approved
\* notification for it was handled: one is paid, the other pending.
C10_Witness ==
    /\ lastResp.route = "webhook" /\ lastResp.lookup = "approved"
    /\ lastResp.found = "pending"
    /\ \E i, j \in Matching(orders, lastResp.id) :
          orders[i].status = "paid" /\ orders[j].status = "pending"

====
